---- MODULE Spec2Model ----
(***************************************************************************)
(* Model of the cache simulator: Simulator.run_simulation drives a list of *)
(* word-address references through an L1 store backed by an L2 store       *)
(* (Cache.read_refs with l2_cache), then through a fresh L1-only store.    *)
(* One step of the model is one iteration of the read_refs loop.           *)
(***************************************************************************)
EXTENDS Integers, Sequences, FiniteSets, TLC

\* ------------------------------------------------------------------ bounds
MaxAddr == 3
MaxLen == 4
MaxBlocksPerSet == 3
MaxWordsPerBlock == 2

\* Python's None (absent index / tag, missing return value), as an integer
\* outside every address field.
None == -1

CacheSizes == {2, 4}
Policies == {"lru", "mru"}
AddrBitsChoices == {1}

\* The two example reference lists of the specification's test section.
ExampleDirectMapped == <<0, 1, 2, 3, 0, 1, 2, 3>>
ExampleFullyAssoc == <<5, 6, 5, 7, 5>>

\* A list that, with three blocks per set, re-references a block L1 has
\* evicted while L2 still holds it.
ExampleRefetch == <<0, 1, 2, 3, 0>>

RECURSIVE SeqsUpTo(_, _)
SeqsUpTo(S, n) ==
    IF n = 0 THEN {<< >>}
    ELSE LET shorter == SeqsUpTo(S, n - 1)
         IN  shorter \cup {Append(s, a) : s \in {t \in shorter : Len(t) = n - 1}, a \in S}

WordAddrLists == SeqsUpTo(0..MaxAddr, MaxLen) \cup {ExampleDirectMapped, ExampleFullyAssoc, ExampleRefetch}

VARIABLES
    pc,                         \* position in run_simulation
    args,                       \* the arguments of run_simulation
    refs,                       \* the Reference objects (index, tag, cache_status)
    l1_cache, l2_cache,         \* the stores of the first pass
    l1_cache_only,              \* the store of the second pass
    pos,                        \* references processed by the running read_refs loop
    total_cycles_with_l2,       \* value returned by the first read_refs call
    total_cycles_with_l1_only,  \* value returned by the second read_refs call
    status_writes,              \* per reference: assignments made to cache_status
    error,                      \* the exception that ended run_simulation, or "none"
    lookup                      \* the last is_hit / get_block inspection and its results

vars == <<pc, args, refs, l1_cache, l2_cache, l1_cache_only, pos,
          total_cycles_with_l2, total_cycles_with_l1_only, status_writes, error,
          lookup>>

\* ------------------------------------------------------- pure arithmetic
RECURSIVE Pow2(_)
Pow2(n) == IF n <= 0 THEN 1 ELSE 2 * Pow2(n - 1)

\* int(math.log2(x)) for x >= 1
RECURSIVE Log2Floor(_)
Log2Floor(x) == IF x <= 1 THEN 0 ELSE 1 + Log2Floor(x \div 2)

RECURSIVE SeqMax(_)
SeqMax(s) ==
    IF Len(s) = 1 THEN s[1]
    ELSE LET m == SeqMax(Tail(s)) IN IF s[1] > m THEN s[1] ELSE m

Max2(a, b) == IF a > b THEN a ELSE b

Min2(a, b) == IF a < b THEN a ELSE b

\* ---------------------------------------- derived configuration (simulator)
NumBlocks(a) == a.cache_size \div a.num_words_per_block
NumSets(a) == NumBlocks(a) \div a.num_blocks_per_set
NumAddrBits(a) == Max2(a.num_addr_bits, Log2Floor(SeqMax(a.word_addrs)) + 1)
NumOffsetBits(a) == Log2Floor(a.num_words_per_block)
NumIndexBits(a) == Log2Floor(NumSets(a))
NumTagBits(a) == NumAddrBits(a) - NumIndexBits(a) - NumOffsetBits(a)

\* Address decomposition rejects a negative tag width.
DecomposeError(a) == IF NumTagBits(a) < 0 THEN "InvalidConfiguration" ELSE "none"

\* The exception run_simulation raises before any cache exists, or "none".
SetupError(a) ==
    IF a.num_words_per_block = 0 THEN "ZeroDivisionError"
    ELSE IF a.num_blocks_per_set = 0 THEN "ZeroDivisionError"
    ELSE IF Len(a.word_addrs) = 0 THEN "ValueError"
    ELSE IF SeqMax(a.word_addrs) <= 0 THEN "ValueError"
    ELSE IF a.num_words_per_block < 0 THEN "ValueError"
    ELSE IF NumSets(a) <= 0 THEN "ValueError"
    ELSE DecomposeError(a)

\* ------------------------------------------------- address decomposition
GetOffset(a, w) ==
    IF NumOffsetBits(a) = 0 THEN None ELSE w % Pow2(NumOffsetBits(a))

GetIndex(a, w) ==
    IF NumIndexBits(a) = 0 THEN None
    ELSE (w \div Pow2(NumOffsetBits(a))) % Pow2(NumIndexBits(a))

GetTag(a, w) ==
    IF NumTagBits(a) = 0 THEN None
    ELSE w \div Pow2(NumOffsetBits(a) + NumIndexBits(a))

\* WordAddress.get_consecutive_words: the words of the block holding w
GetConsecutiveWords(w, n) == [k \in 1..n |-> (w - (w % n)) + (k - 1)]

NewReference(a, w) ==
    [word_addr |-> w, index |-> GetIndex(a, w), tag |-> GetTag(a, w),
     offset |-> GetOffset(a, w), cache_status |-> "none"]

get_addr_refs(a) == [k \in 1..Len(a.word_addrs) |-> NewReference(a, a.word_addrs[k])]

get_cache_entry(ref, num_words_per_block) ==
    [tag |-> ref.tag, index |-> ref.index,
     data |-> GetConsecutiveWords(ref.word_addr, num_words_per_block)]

\* ------------------------------------------------------------ Cache store
\* A store that has not been constructed yet.
NoCache == [sets |-> << >>, recently_used_addrs |-> << >>, is_l2 |-> FALSE]

NewCache(num_sets, is_l2) ==
    [sets |-> [k \in 0..(num_sets - 1) |-> << >>],
     recently_used_addrs |-> << >>, is_l2 |-> is_l2]

\* variant: every block is kept in the set keyed "0"
SetKey_AlwaysZero(addr_index) == 0

\* self["0"] for an absent index, self[addr_index] otherwise
SetKey(addr_index) == IF addr_index = None THEN 0 ELSE addr_index

\* list.remove: drops the first occurrence of x
RECURSIVE RemoveFirst(_, _)
RemoveFirst(s, x) ==
    IF s = << >> THEN << >>
    ELSE IF Head(s) = x THEN Tail(s)
    ELSE <<Head(s)>> \o RemoveFirst(Tail(s), x)

\* variant: an address already in the list keeps its place
mark_ref_as_last_seen_NoMove(cache, ref) ==
    LET addr_id == <<ref.index, ref.tag>>
    IN  IF \E k \in 1..Len(cache.recently_used_addrs) : cache.recently_used_addrs[k] = addr_id
        THEN cache
        ELSE [cache EXCEPT !.recently_used_addrs = Append(@, addr_id)]

mark_ref_as_last_seen(cache, ref) ==
    LET addr_id == <<ref.index, ref.tag>>
    IN  [cache EXCEPT !.recently_used_addrs = Append(RemoveFirst(@, addr_id), addr_id)]

HasTag(blocks, addr_tag) == \E k \in 1..Len(blocks) : blocks[k].tag = addr_tag

\* variant: no branch for the absent index of a fully associative store
is_hit_NoFullyAssoc(cache, addr_index, addr_tag) ==
    IF addr_index \in DOMAIN cache.sets THEN HasTag(cache.sets[addr_index], addr_tag)
    ELSE FALSE

\* variant: an index that is not a key falls back to the set keyed "0"
is_hit_MissingKeyFallsBack(cache, addr_index, addr_tag) ==
    IF addr_index \in DOMAIN cache.sets THEN HasTag(cache.sets[addr_index], addr_tag)
    ELSE HasTag(cache.sets[0], addr_tag)

is_hit(cache, addr_index, addr_tag) ==
    IF addr_index = None THEN HasTag(cache.sets[0], addr_tag)
    ELSE IF addr_index \in DOMAIN cache.sets THEN HasTag(cache.sets[addr_index], addr_tag)
    ELSE FALSE

FirstWithTag(blocks, addr_tag) ==
    blocks[CHOOSE k \in 1..Len(blocks) :
              /\ blocks[k].tag = addr_tag
              /\ \A j \in 1..(k - 1) : blocks[j].tag # addr_tag]

\* Returns <<TRUE, block>> or <<FALSE>> (None)
get_block(cache, addr_index, addr_tag) ==
    IF addr_index \in DOMAIN cache.sets /\ HasTag(cache.sets[addr_index], addr_tag)
    THEN <<TRUE, FirstWithTag(cache.sets[addr_index], addr_tag)>>
    ELSE <<FALSE>>

\* variant: a full set is not relieved before the append
set_block_last_NoEvict(cache, replacement_policy, num_blocks_per_set, addr_index, new_entry) ==
    [cache EXCEPT !.sets[SetKey(addr_index)] = Append(@, new_entry)]

\* variant: the append happens only when nothing was evicted
set_block_last_DropsNew(cache, replacement_policy, num_blocks_per_set, addr_index, new_entry) ==
    LET key == SetKey(addr_index)
        blocks == cache.sets[key]
    IN  [cache EXCEPT !.sets[key] = IF Len(blocks) = num_blocks_per_set
                                     THEN Tail(blocks)
                                     ELSE Append(blocks, new_entry)]

\* variant: the victim is chosen from the recency list by policy, first
\* match from the least recent end (lru) or from the most recent end (mru)
set_block_last_UsesPolicy(cache, replacement_policy, num_blocks_per_set, addr_index, new_entry) ==
    LET key == SetKey(addr_index)
        blocks == cache.sets[key]
        recent == cache.recently_used_addrs
        Listed(k) == \E r \in 1..Len(recent) : recent[r] = <<blocks[k].index, blocks[k].tag>>
        Rank(k) == CHOOSE r \in 1..Len(recent) : recent[r] = <<blocks[k].index, blocks[k].tag>>
        listed == {k \in 1..Len(blocks) : Listed(k)}
        victim == IF listed = {} THEN 1
                  ELSE CHOOSE k \in listed :
                          \A j \in listed : IF replacement_policy = "mru"
                                             THEN Rank(k) >= Rank(j)
                                             ELSE Rank(k) <= Rank(j)
        kept == IF Len(blocks) = num_blocks_per_set
                THEN [k \in 1..(Len(blocks) - 1) |->
                         IF k < victim THEN blocks[k] ELSE blocks[k + 1]]
                ELSE blocks
    IN  [cache EXCEPT !.sets[key] = Append(kept, new_entry)]

\* set_block on a store with no next level to write back to (l2_cache is
\* None, or the store is itself flagged is_l2): the evicted entry is dropped.
set_block_last(cache, replacement_policy, num_blocks_per_set, addr_index, new_entry) ==
    LET key == SetKey(addr_index)
        blocks == cache.sets[key]
        kept == IF Len(blocks) = num_blocks_per_set THEN Tail(blocks) ELSE blocks
    IN  [cache EXCEPT !.sets[key] = Append(kept, new_entry)]

\* variant: the evicted entry is written back without its index
set_block_WritebackNoIndex(cache, replacement_policy, num_blocks_per_set, addr_index, new_entry, l2, has_l2) ==
    LET key == SetKey(addr_index)
        blocks == cache.sets[key]
        writes_back == Len(blocks) = num_blocks_per_set /\ has_l2 /\ ~cache.is_l2
    IN  [cache |-> set_block_last(cache, replacement_policy, num_blocks_per_set,
                                  addr_index, new_entry),
         l2 |-> IF writes_back
                THEN set_block_last(l2, replacement_policy, num_blocks_per_set,
                                    None, blocks[1])
                ELSE l2]

\* variant: the is_l2 flag is not consulted before writing back
set_block_IgnoresIsL2(cache, replacement_policy, num_blocks_per_set, addr_index, new_entry, l2, has_l2) ==
    LET key == SetKey(addr_index)
        blocks == cache.sets[key]
        writes_back == Len(blocks) = num_blocks_per_set /\ has_l2
    IN  [cache |-> set_block_last(cache, replacement_policy, num_blocks_per_set,
                                  addr_index, new_entry),
         l2 |-> IF writes_back
                THEN set_block_last(l2, replacement_policy, num_blocks_per_set,
                                    blocks[1].index, blocks[1])
                ELSE l2]

\* set_block: returns the store and its next level after the call.
set_block(cache, replacement_policy, num_blocks_per_set, addr_index, new_entry, l2, has_l2) ==
    LET key == SetKey(addr_index)
        blocks == cache.sets[key]
        full == Len(blocks) = num_blocks_per_set
        writes_back == full /\ has_l2 /\ ~cache.is_l2
    IN  [cache |-> set_block_last(cache, replacement_policy, num_blocks_per_set, addr_index, new_entry),
         l2 |-> IF writes_back
                THEN set_block_last(l2, replacement_policy, num_blocks_per_set, blocks[1].index, blocks[1])
                ELSE l2]

\* variant: an L1 miss that L2 can serve is recorded as a hit
read_ref_L2HitCounts(cache, l2, has_l2, a, ref) ==
    LET seen == mark_ref_as_last_seen(cache, ref)
    IN  IF is_hit(seen, ref.index, ref.tag)
        THEN [cache |-> seen, l2 |-> l2, status |-> "hit"]
        ELSE LET ins == set_block(seen, a.replacement_policy, a.num_blocks_per_set,
                                  ref.index, get_cache_entry(ref, a.num_words_per_block),
                                  l2, has_l2)
                 fill == has_l2 /\ ~is_hit(ins.l2, ref.index, ref.tag)
             IN  [cache |-> ins.cache,
                  l2 |-> IF fill
                         THEN set_block_last(ins.l2, a.replacement_policy,
                                             a.num_blocks_per_set, ref.index,
                                             get_cache_entry(ref, a.num_words_per_block))
                         ELSE ins.l2,
                  status |-> IF has_l2 /\ ~fill THEN "hit" ELSE "miss"]

\* variant: the direct L2 fill is not guarded by an L2 hit test
read_ref_AlwaysFills(cache, l2, has_l2, a, ref) ==
    LET seen == mark_ref_as_last_seen(cache, ref)
    IN  IF is_hit(seen, ref.index, ref.tag)
        THEN [cache |-> seen, l2 |-> l2, status |-> "hit"]
        ELSE LET ins == set_block(seen, a.replacement_policy, a.num_blocks_per_set,
                                  ref.index, get_cache_entry(ref, a.num_words_per_block),
                                  l2, has_l2)
             IN  [cache |-> ins.cache,
                  l2 |-> IF has_l2
                         THEN set_block_last(ins.l2, a.replacement_policy,
                                             a.num_blocks_per_set, ref.index,
                                             get_cache_entry(ref, a.num_words_per_block))
                         ELSE ins.l2,
                  status |-> "miss"]

\* One iteration of the read_refs loop for reference ref.
read_ref(cache, l2, has_l2, a, ref) ==
    LET seen == mark_ref_as_last_seen(cache, ref)
    IN  IF is_hit(seen, ref.index, ref.tag)
        THEN [cache |-> seen, l2 |-> l2, status |-> "hit"]
        ELSE LET ins == set_block(seen, a.replacement_policy, a.num_blocks_per_set, ref.index,
                                  get_cache_entry(ref, a.num_words_per_block), l2, has_l2)
                 fill == has_l2 /\ ~is_hit(ins.l2, ref.index, ref.tag)
             IN  [cache |-> ins.cache,
                  l2 |-> IF fill
                         THEN set_block_last(ins.l2, a.replacement_policy, a.num_blocks_per_set,
                                             ref.index,
                                             get_cache_entry(ref, a.num_words_per_block))
                         ELSE ins.l2,
                  status |-> "miss"]

\* ------------------------------------------------------------ inspection
NoLookup == [store |-> "none", index |-> None, tag |-> None, hit |-> FALSE,
             block |-> <<FALSE>>]

\* Keys are index strings of num_index_bits characters: from two index bits
\* on no set is keyed "0", and is_hit with an absent index raises KeyError.
KeyZeroMissing(a) == NumIndexBits(a) >= 2

\* a key of the store, the first index past its keys, and the absent index
LookupIndices(a) == {None, 0, NumSets(a)}

\* every tag the run referenced, and the absent tag
KnownTags == {None} \cup {refs[k].tag : k \in 1..Len(refs)}

\* the tags an inspection asks for: the first reference's and the absent one
LookupTags == {None} \cup {refs[k].tag : k \in 1..Min2(1, Len(refs))}

StoreNamed(name) == IF name = "l1" THEN l1_cache ELSE l2_cache

\* --------------------------------------------------------------- actions
Init ==
    /\ pc = "start"
    /\ args \in [num_blocks_per_set : 0..MaxBlocksPerSet,
                 num_words_per_block : 0..MaxWordsPerBlock,
                 cache_size : CacheSizes,
                 replacement_policy : Policies,
                 num_addr_bits : AddrBitsChoices,
                 word_addrs : WordAddrLists]
    /\ refs = << >>
    /\ l1_cache = NoCache
    /\ l2_cache = NoCache
    /\ l1_cache_only = NoCache
    /\ pos = 0
    /\ total_cycles_with_l2 = None
    /\ total_cycles_with_l1_only = None
    /\ status_writes = << >>
    /\ error = "none"
    /\ lookup = NoLookup

\* run_simulation raises while deriving the configuration or the references
SetupFails ==
    /\ pc = "start"
    /\ SetupError(args) # "none"
    /\ pc' = "error"
    /\ error' = SetupError(args)
    /\ UNCHANGED <<args, refs, l1_cache, l2_cache, l1_cache_only, pos,
                   total_cycles_with_l2, total_cycles_with_l1_only, status_writes, lookup>>

\* run_simulation up to the first read_refs call
Setup ==
    /\ pc = "start"
    /\ SetupError(args) = "none"
    /\ refs' = get_addr_refs(args)
    /\ status_writes' = [k \in 1..Len(args.word_addrs) |-> 0]
    /\ l1_cache' = NewCache(NumSets(args), FALSE)
    /\ l2_cache' = NewCache(NumSets(args), TRUE)
    /\ pos' = 0
    /\ pc' = "with_l2"
    /\ UNCHANGED <<args, l1_cache_only, total_cycles_with_l2,
                   total_cycles_with_l1_only, error, lookup>>

\* one iteration of l1_cache.read_refs(..., refs, l2_cache)
ReadRefWithL2 ==
    /\ pc = "with_l2"
    /\ pos < Len(refs)
    /\ LET r == read_ref(l1_cache, l2_cache, TRUE, args, refs[pos + 1])
       IN  /\ l1_cache' = r.cache
           /\ l2_cache' = r.l2
           /\ refs' = [refs EXCEPT ![pos + 1].cache_status = r.status]
    /\ status_writes' = [status_writes EXCEPT ![pos + 1] = @ + 1]
    /\ pos' = pos + 1
    /\ UNCHANGED <<pc, args, l1_cache_only, total_cycles_with_l2,
                   total_cycles_with_l1_only, error, lookup>>

\* the first read_refs call returns; the L1-only store is constructed
ReturnWithL2 ==
    /\ pc = "with_l2"
    /\ pos = Len(refs)
    /\ total_cycles_with_l2' = None
    /\ l1_cache_only' = NewCache(NumSets(args), FALSE)
    /\ pos' = 0
    /\ pc' = "l1_only"
    /\ UNCHANGED <<args, refs, l1_cache, l2_cache, total_cycles_with_l1_only,
                   status_writes, error, lookup>>

\* one iteration of l1_cache_only.read_refs(..., refs)
ReadRefL1Only ==
    /\ pc = "l1_only"
    /\ pos < Len(refs)
    /\ LET r == read_ref(l1_cache_only, NoCache, FALSE, args, refs[pos + 1])
       IN  /\ l1_cache_only' = r.cache
           /\ refs' = [refs EXCEPT ![pos + 1].cache_status = r.status]
    /\ status_writes' = [status_writes EXCEPT ![pos + 1] = @ + 1]
    /\ pos' = pos + 1
    /\ UNCHANGED <<pc, args, l1_cache, l2_cache, total_cycles_with_l2,
                   total_cycles_with_l1_only, error, lookup>>

\* the second read_refs call returns and run_simulation ends
ReturnL1Only ==
    /\ pc = "l1_only"
    /\ pos = Len(refs)
    /\ total_cycles_with_l1_only' = None
    /\ pc' = "done"
    /\ UNCHANGED <<args, refs, l1_cache, l2_cache, l1_cache_only, pos,
                   total_cycles_with_l2, status_writes, error, lookup>>

\* is_hit and get_block are called on a store of the finished run
Inspect ==
    /\ pc = "done"
    /\ \E name \in {"l1", "l2"}, idx \in LookupIndices(args), tag \in LookupTags :
          /\ ~(idx = None /\ KeyZeroMissing(args))
          /\ lookup' = [store |-> name, index |-> idx, tag |-> tag,
                        hit |-> is_hit(StoreNamed(name), idx, tag),
                        block |-> get_block(StoreNamed(name), idx, tag)]
    /\ pc' = "inspected"
    /\ UNCHANGED <<args, refs, l1_cache, l2_cache, l1_cache_only, pos,
                   total_cycles_with_l2, total_cycles_with_l1_only, status_writes, error>>

\* is_hit with an absent index on a store that has no set keyed "0"
InspectRaises ==
    /\ pc = "done"
    /\ KeyZeroMissing(args)
    /\ pc' = "error"
    /\ error' = "KeyError"
    /\ UNCHANGED <<args, refs, l1_cache, l2_cache, l1_cache_only, pos,
                   total_cycles_with_l2, total_cycles_with_l1_only, status_writes, lookup>>

Next ==
    \/ SetupFails
    \/ Setup
    \/ ReadRefWithL2
    \/ ReturnWithL2
    \/ ReadRefL1Only
    \/ ReturnL1Only
    \/ Inspect
    \/ InspectRaises

Spec == Init /\ [][Next]_vars

TypeOK ==
    /\ pc \in {"start", "with_l2", "l1_only", "done", "inspected", "error"}
    /\ pos \in 0..Len(refs)

\* ------------------------------------------------------ shared vocabulary
Range(s) == {s[k] : k \in 1..Len(s)}

Running == pc \in {"with_l2", "l1_only"}

\* the top-level store of the read_refs call in progress
TopCache == IF pc = "with_l2" THEN l1_cache ELSE l1_cache_only

AddrId(ref) == <<ref.index, ref.tag>>

WithinCapacity(cache) ==
    \A k \in DOMAIN cache.sets : Len(cache.sets[k]) <= args.num_blocks_per_set

UniqueTags(cache) ==
    \A k \in DOMAIN cache.sets :
        \A x, y \in 1..Len(cache.sets[k]) :
            x # y => cache.sets[k][x].tag # cache.sets[k][y].tag

\* the stores of the first pass after its first n references
RECURSIVE StoresAfter(_)
StoresAfter(n) ==
    IF n = 0
    THEN [cache |-> NewCache(NumSets(args), FALSE), l2 |-> NewCache(NumSets(args), TRUE),
          status |-> "none"]
    ELSE LET p == StoresAfter(n - 1)
         IN  read_ref(p.cache, p.l2, TRUE, args, refs[n])

\* reference ref misses in store cache and its target set is full
MissEvicts(cache, ref) ==
    /\ ~is_hit(cache, ref.index, ref.tag)
    /\ Len(cache.sets[SetKey(ref.index)]) = args.num_blocks_per_set

\* the entry of the full set before that is gone from the set after
Removed(before, after) == CHOOSE b \in Range(before) : b \notin Range(after)

PosIn(s, x) == CHOOSE k \in 1..Len(s) : s[k] = x

\* the stores a set_block call of the pending first-pass reference leaves
\* behind before the direct L2 fill runs
AfterFirstSetBlock ==
    LET ref == refs[pos + 1]
        seen == mark_ref_as_last_seen(l1_cache, ref)
    IN  set_block(seen, args.replacement_policy, args.num_blocks_per_set, ref.index,
                  get_cache_entry(ref, args.num_words_per_block), l2_cache, TRUE)

PendingMissWithL2 ==
    /\ pc = "with_l2"
    /\ pos < Len(refs)
    /\ ~is_hit(l1_cache, refs[pos + 1].index, refs[pos + 1].tag)

\* ----------------------------------------------------------------- claims

\* C1: after every set_block call every set of the L1 stores and of the L2
\* store holds at most num_blocks_per_set entries (also between the L1
\* insertion with its write-back and the direct L2 fill).
C1_SetCapacity ==
    /\ WithinCapacity(l1_cache)
    /\ WithinCapacity(l2_cache)
    /\ WithinCapacity(l1_cache_only)
    /\ PendingMissWithL2 =>
          /\ WithinCapacity(AfterFirstSetBlock.cache)
          /\ WithinCapacity(AfterFirstSetBlock.l2)

\* C1 witness: the reference just processed missed on a full L1 set, evicted
\* into L2, and both sets are back at exactly num_blocks_per_set entries.
C1_Witness ==
    /\ pc = "with_l2"
    /\ pos >= 1
    /\ MissEvicts(StoresAfter(pos - 1).cache, refs[pos])
    /\ Len(l1_cache.sets[SetKey(refs[pos].index)]) = args.num_blocks_per_set
    /\ Len(l2_cache.sets[SetKey(refs[pos].index)]) = args.num_blocks_per_set

\* C2: no set of an L1 store or of the L2 store holds two entries with the
\* same tag, also right after an evicted L1 block was written back to L2.
C2_TagUniqueness ==
    /\ UniqueTags(l1_cache)
    /\ UniqueTags(l2_cache)
    /\ UniqueTags(l1_cache_only)
    /\ PendingMissWithL2 =>
          /\ UniqueTags(AfterFirstSetBlock.cache)
          /\ UniqueTags(AfterFirstSetBlock.l2)

\* C2 witness: the reference just processed evicted a block from L1 whose
\* tag L2 already held in that set when the write-back happened.
C2_Witness ==
    /\ pc = "with_l2"
    /\ pos >= 1
    /\ LET before == StoresAfter(pos - 1)
           key == SetKey(refs[pos].index)
       IN  /\ MissEvicts(before.cache, refs[pos])
           /\ HasTag(before.l2.sets[key], before.cache.sets[key][1].tag)
           /\ Len(l2_cache.sets[key]) >= 2

\* C3: with num_blocks_per_set = 1 and L2 attached, the block X an L1 miss
\* evicts is returned by l2_cache.get_block(X.index, X.tag) once the
\* reference has been processed.
C3_EvictedRetrievable ==
    [][(/\ pc = "with_l2"
        /\ pos' = pos + 1
        /\ args.num_blocks_per_set = 1
        /\ MissEvicts(l1_cache, refs[pos + 1]))
       => LET X == l1_cache.sets[SetKey(refs[pos + 1].index)][1]
          IN  get_block(l2_cache', X.index, X.tag) = <<TRUE, X>>]_vars

\* position of a resident block in the recency list
RecencyPos(cache, b) == PosIn(cache.recently_used_addrs, <<b.index, b.tag>>)

\* C4: with policy lru, a set_block call on a full L1 set removes the block
\* of that set that is earliest in the store's recency list.
C4_LRUVictim ==
    [][(/\ Running
        /\ pos' = pos + 1
        /\ args.replacement_policy = "lru"
        /\ MissEvicts(TopCache, refs[pos + 1]))
       => LET key == SetKey(refs[pos + 1].index)
              before == TopCache.sets[key]
              victim == Removed(before, TopCache'.sets[key])
          IN  \A b \in Range(before) :
                 RecencyPos(TopCache', victim) <= RecencyPos(TopCache', b)]_vars

\* C5: with policy mru, a set_block call on a full L1 set removes the block
\* of that set that is latest in the store's recency list.
C5_MRUVictim ==
    [][(/\ Running
        /\ pos' = pos + 1
        /\ args.replacement_policy = "mru"
        /\ MissEvicts(TopCache, refs[pos + 1]))
       => LET key == SetKey(refs[pos + 1].index)
              before == TopCache.sets[key]
              victim == Removed(before, TopCache'.sets[key])
          IN  \A b \in Range(before) :
                 RecencyPos(TopCache', victim) >= RecencyPos(TopCache', b)]_vars

IsDirectMappedExample ==
    /\ args.num_blocks_per_set = 1
    /\ args.num_words_per_block = 1
    /\ args.cache_size = 4
    /\ args.replacement_policy = "lru"
    /\ args.word_addrs = ExampleDirectMapped

DirectMappedStatuses == <<"miss", "miss", "miss", "miss", "hit", "hit", "hit", "hit">>

\* C6: the direct-mapped example run against the L1-only store classifies
\* [0,1,2,3,0,1,2,3] as four misses followed by four hits.
C6_DirectMappedExample ==
    (IsDirectMappedExample /\ pc \in {"l1_only", "done"}) =>
        \A k \in 1..(IF pc = "done" THEN Len(refs) ELSE pos) :
            refs[k].cache_status = DirectMappedStatuses[k]

\* C6 witness: the L1-only pass of the direct-mapped example has finished.
C6_Witness ==
    /\ IsDirectMappedExample
    /\ pc = "done"
    /\ Len(refs) = 8
    /\ refs[8].cache_status = "hit"

IsFullyAssocExample ==
    /\ args.num_blocks_per_set = 2
    /\ args.num_words_per_block = 1
    /\ args.cache_size = 2
    /\ args.replacement_policy = "lru"
    /\ args.word_addrs = ExampleFullyAssoc

FullyAssocStatuses == <<"miss", "miss", "hit", "miss", "miss">>

\* C7: the fully-associative example classifies [5,6,5,7,5] as
\* [miss,miss,hit,miss,miss] and its fourth reference (7) evicts block 6,
\* leaving blocks 5 and 7 in the set.
C7_FullyAssocExample ==
    (IsFullyAssocExample /\ Running) =>
        /\ \A k \in 1..pos : refs[k].cache_status = FullyAssocStatuses[k]
        /\ pos = 4 =>
              /\ ~is_hit(TopCache, refs[2].index, refs[2].tag)
              /\ is_hit(TopCache, refs[1].index, refs[1].tag)
              /\ is_hit(TopCache, refs[4].index, refs[4].tag)

\* C8: a reference with the (index, tag) of the reference processed right
\* before it is a hit, and the first reference to an (index, tag) is a miss.
C8_ImmediateReaccess ==
    Running =>
        \A k \in 1..pos :
            /\ (k >= 2 /\ AddrId(refs[k]) = AddrId(refs[k - 1]))
                  => refs[k].cache_status = "hit"
            /\ (\A j \in 1..(k - 1) : AddrId(refs[j]) # AddrId(refs[k]))
                  => refs[k].cache_status = "miss"

\* C8 witness: a new address was referenced twice in a row: miss, then hit.
C8_Witness ==
    /\ Running
    /\ pos >= 3
    /\ AddrId(refs[pos]) = AddrId(refs[pos - 1])
    /\ \A j \in 1..(pos - 2) : AddrId(refs[j]) # AddrId(refs[pos])
    /\ refs[pos - 1].cache_status = "miss"
    /\ refs[pos].cache_status = "hit"

\* C9: both read_refs calls return an integer cycle total and the total of
\* the L1+L2 run is at most the total of the L1-only run.
C9_CycleOrdering ==
    pc = "done" =>
        /\ total_cycles_with_l2 # None
        /\ total_cycles_with_l1_only # None
        /\ total_cycles_with_l2 <= total_cycles_with_l1_only

\* C10: every reference's cache_status is assigned exactly once during
\* run_simulation; the L1-only pass does not assign it again.
C10_StatusWrittenOnce ==
    /\ \A k \in 1..Len(status_writes) : status_writes[k] <= 1
    /\ pc = "done" => \A k \in 1..Len(status_writes) : status_writes[k] = 1

\* ------------------------------------------------- claims on lookups, errors
InspectStep == pc = "done" /\ pc' = "inspected"

IsPow2(n) == n >= 1 /\ Pow2(Log2Floor(n)) = n

\* the configurations the specification calls invalid
InvalidConfig(a) ==
    \/ a.cache_size <= 0
    \/ a.num_words_per_block <= 0
    \/ a.num_blocks_per_set <= 0
    \/ a.cache_size % a.num_words_per_block # 0
    \/ NumBlocks(a) % a.num_blocks_per_set # 0
    \/ ~IsPow2(a.num_words_per_block)
    \/ ~IsPow2(NumSets(a))

\* C12: an invalid configuration ends run_simulation in an
\* InvalidConfiguration error before any store or reference is touched.
C12_InvalidConfigRejected ==
    (InvalidConfig(args) /\ pc # "start") =>
        /\ pc = "error"
        /\ error = "InvalidConfiguration"
        /\ refs = << >>
        /\ l1_cache = NoCache

\* C13: with a valid configuration an empty list of word addresses runs to
\* completion without an error.
C13_EmptyListIsValid ==
    (~InvalidConfig(args) /\ args.word_addrs = << >> /\ pc # "start") =>
        /\ pc # "error"
        /\ error = "none"

\* the stores right after the L1 set_block call of reference ref, applied to
\* first-pass stores cache and l2
FirstSetBlock(cache, l2, ref) ==
    set_block(mark_ref_as_last_seen(cache, ref), args.replacement_policy,
              args.num_blocks_per_set, ref.index,
              get_cache_entry(ref, args.num_words_per_block), l2, TRUE)

WithL2MissStep ==
    /\ pc = "with_l2"
    /\ pos' = pos + 1
    /\ ~is_hit(l1_cache, refs[pos + 1].index, refs[pos + 1].tag)

\* C14: after an L1 miss with L2 attached, L2 holds the reference's tag in
\* the reference's set, and the direct fill is skipped exactly when L2 held
\* that tag after the eviction write-back.
C14_L2FillOnMiss ==
    [][WithL2MissStep =>
          LET ref == refs[pos + 1]
              mid == FirstSetBlock(l1_cache, l2_cache, ref).l2
          IN  /\ is_hit(l2_cache', ref.index, ref.tag)
              /\ (l2_cache' = mid) <=> is_hit(mid, ref.index, ref.tag)]_vars

\* C14 witness: the reference just processed missed in L1 and its direct
\* L2 fill was skipped because L2 still held its tag.
C14_Witness ==
    /\ pc = "with_l2"
    /\ pos >= 1
    /\ refs[pos].cache_status = "miss"
    /\ LET before == StoresAfter(pos - 1)
           mid == FirstSetBlock(before.cache, before.l2, refs[pos]).l2
       IN  /\ is_hit(mid, refs[pos].index, refs[pos].tag)
           /\ l2_cache = mid

\* C15: the L1 set_block call writes the evicted entry into L2 exactly once
\* when the L1 set is full and leaves L2 alone otherwise; a store flagged
\* is_l2, or one with no next level, propagates nothing.
C15_WriteBackOnlyOnOverflow ==
    [][/\ WithL2MissStep =>
             LET ref == refs[pos + 1]
                 key == SetKey(ref.index)
                 mid == FirstSetBlock(l1_cache, l2_cache, ref).l2
                 old == l2_cache.sets[key]
                 new == mid.sets[key]
             IN  IF Len(l1_cache.sets[key]) = args.num_blocks_per_set
                 THEN /\ new[Len(new)] = l1_cache.sets[key][1]
                      /\ Len(new) = Min2(Len(old) + 1, args.num_blocks_per_set)
                      /\ \A k \in 1..(Len(new) - 1) : new[k] = old[k + Len(old) + 1 - Len(new)]
                      /\ \A j \in DOMAIN mid.sets : j # key => mid.sets[j] = l2_cache.sets[j]
                 ELSE mid = l2_cache
       /\ (pc = "with_l2" /\ pos' = pos + 1) =>
             LET ref == refs[pos + 1]
             IN  set_block(l2_cache, args.replacement_policy, args.num_blocks_per_set,
                           ref.index, get_cache_entry(ref, args.num_words_per_block),
                           l1_cache, TRUE).l2 = l1_cache
       /\ (pc = "l1_only" /\ pos' = pos + 1) =>
             /\ l2_cache' = l2_cache
             /\ l1_cache' = l1_cache]_vars

\* C15 witness: the reference before last missed on a set below capacity,
\* the last one missed on the full set, and the entry it evicted is in L2.
C15_Witness ==
    /\ pc = "with_l2"
    /\ pos >= 2
    /\ args.num_blocks_per_set >= 2
    /\ refs[pos - 1].cache_status = "miss"
    /\ ~MissEvicts(StoresAfter(pos - 2).cache, refs[pos - 1])
    /\ LET before == StoresAfter(pos - 1)
           key == SetKey(refs[pos].index)
       IN  /\ MissEvicts(before.cache, refs[pos])
           /\ before.cache.sets[key][1] \in Range(l2_cache.sets[key])
           /\ before.cache.sets[key][1] \notin Range(l1_cache.sets[key])

\* ------------------------------------------- claims on recency and levels
\* the position of the last processed reference to addr_id
LastRef(addr_id) ==
    CHOOSE k \in 1..pos :
        /\ AddrId(refs[k]) = addr_id
        /\ \A j \in (k + 1)..pos : AddrId(refs[j]) # addr_id

\* C16: the L1 recency list holds each referenced (index, tag) exactly once,
\* ordered by time of last reference, the last processed reference last.
C16_RecencyListShape ==
    Running =>
        LET recent == TopCache.recently_used_addrs
        IN  /\ \A x, y \in 1..Len(recent) : x # y => recent[x] # recent[y]
            /\ Range(recent) = {AddrId(refs[k]) : k \in 1..pos}
            /\ \A x, y \in 1..Len(recent) :
                  x < y => LastRef(recent[x]) < LastRef(recent[y])
            /\ pos >= 1 => recent[Len(recent)] = AddrId(refs[pos])

\* C16 witness: a hit on the least recently used address moved it from the
\* front of the list to its end.
C16_Witness ==
    /\ Running
    /\ pos >= 3
    /\ refs[pos].cache_status = "hit"
    /\ AddrId(refs[pos]) = AddrId(refs[1])
    /\ AddrId(refs[pos - 1]) # AddrId(refs[1])
    /\ Len(TopCache.recently_used_addrs) >= 2
    /\ TopCache.recently_used_addrs[Len(TopCache.recently_used_addrs)] = AddrId(refs[1])

\* every block of the store sits in the set its index field names
IndexMatchesKey(cache) ==
    \A k \in DOMAIN cache.sets :
        \A x \in 1..Len(cache.sets[k]) :
            IF Cardinality(DOMAIN cache.sets) = 1
            THEN cache.sets[k][x].index = None
            ELSE cache.sets[k][x].index = k

\* C17: an evicted entry leaves its L1 set and enters the L2 set keyed by
\* its own index; every stored block carries the key of its set as index
\* (no index in the single set of a fully associative store).
C17_EvictionKeepsIndex ==
    /\ IndexMatchesKey(l1_cache)
    /\ IndexMatchesKey(l2_cache)
    /\ IndexMatchesKey(l1_cache_only)
    /\ (PendingMissWithL2 /\ MissEvicts(l1_cache, refs[pos + 1])) =>
          LET X == l1_cache.sets[SetKey(refs[pos + 1].index)][1]
              mid == AfterFirstSetBlock
          IN  /\ X \notin Range(mid.cache.sets[SetKey(refs[pos + 1].index)])
              /\ X \in Range(mid.l2.sets[SetKey(X.index)])
              /\ IndexMatchesKey(mid.l2)

\* C17 witness: a block was evicted from the L1 set keyed 1 of a store with
\* several sets and written back into the L2 set keyed 1.
C17_Witness ==
    /\ pc = "with_l2"
    /\ pos >= 1
    /\ LET before == StoresAfter(pos - 1)
       IN  /\ MissEvicts(before.cache, refs[pos])
           /\ refs[pos].index = 1
           /\ before.cache.sets[1][1].index = 1
           /\ before.cache.sets[1][1]
                 \in Range(FirstSetBlock(before.cache, before.l2, refs[pos]).l2.sets[1])
           /\ before.cache.sets[1][1] \notin Range(l1_cache.sets[1])

\* C18: attaching L2 changes nothing in L1: the L1-only pass gives every
\* reference the status the first pass gave it and ends with the same L1
\* sets and recency list.
C18_L2InvisibleToL1 ==
    [][/\ (pc = "l1_only" /\ pos' = pos + 1) =>
             refs'[pos + 1].cache_status = refs[pos + 1].cache_status
       /\ (pc = "l1_only" /\ pc' = "done") =>
             /\ l1_cache_only'.sets = l1_cache'.sets
             /\ l1_cache_only'.recently_used_addrs = l1_cache'.recently_used_addrs]_vars

\* C18 witness: both passes are over and the first one wrote a block back
\* to L2 on the way.
C18_Witness ==
    /\ pc = "done"
    /\ l1_cache_only = l1_cache
    /\ \E k \in 1..Len(refs) : MissEvicts(StoresAfter(k - 1).cache, refs[k])

\* C19: for every store and every (index, tag), the absent index of a
\* single-set store included, get_block returns an entry exactly when is_hit
\* is true, and the entry has the requested tag.
C19_LookupAgreement ==
    (pc \in {"with_l2", "l1_only", "done"}) =>
        \A cache \in {l1_cache, l2_cache} :
            \A idx \in {None} \cup (0..NumSets(args)), tag \in KnownTags :
                (idx = None => NumSets(args) = 1) =>
                    LET found == get_block(cache, idx, tag)
                    IN  /\ found[1] <=> is_hit(cache, idx, tag)
                        /\ found[1] => found[2].tag = tag

OtherPolicy(a) ==
    [a EXCEPT !.replacement_policy = IF @ = "lru" THEN "mru" ELSE "lru"]

RECURSIVE Reverse(_)
Reverse(s) == IF s = << >> THEN << >> ELSE Append(Reverse(Tail(s)), Head(s))

====
